---- MODULE Spec2Model ----
(***************************************************************************)
(* Model of src/app1.py, a Streamlit dashboard script.  Streamlit runs the *)
(* whole script from top to bottom on every user interaction; the only     *)
(* state that survives a run is st.session_state, the values of the        *)
(* widgets that were rendered, and the two CSV files on disk.  Each action *)
(* below is one user interaction together with the script run(s) it        *)
(* triggers; the outcome of the last run is kept in the variable run.      *)
(*                                                                         *)
(* Numbers: Python/pandas floats are modelled as exact fractions n/d, with *)
(* d = 0 standing for the IEEE specials (0/0 NaN, n/0 inf).  Timestamps    *)
(* are integers counted in half days; a calendar date d is the timestamp   *)
(* d * HalvesPerDay (midnight).  Debt-to-income ratios are integers        *)
(* counted in tenths.  A text is a sequence of tokens (words, "," , " ").  *)
(***************************************************************************)
EXTENDS Integers, Sequences, FiniteSets, TLC

VARIABLES loans_csv, txns_csv, authenticated, widgets, run, last_auth

vars == <<loans_csv, txns_csv, authenticated, widgets, run, last_auth>>

(* ------------------------------ bounds --------------------------------- *)
\* calendar days offered by the date picker are 1..MaxDay
MaxDay == 2
\* applicant ages drawn in SpecDerive are MinAge..MaxAge
MaxAge == 101
\* debt-to-income ratios drawn in SpecDerive are MinDti..MaxDti (tenths)
MaxDti == 1510
\* distinct states of the transaction tables drawn in SpecTop
MaxStates == 11

HalvesPerDay == 2
DtiScale == 10
MinAge == 0 - 1
MinDti == 0 - 10

(* --------------------------- float arithmetic -------------------------- *)
Frac(n, d) == [n |-> n, d |-> d]
Num(k) == Frac(k, 1)
NaNf == Frac(0, 0)
IsNaN(a) == a.d = 0 /\ a.n = 0
IsFinite(a) == a.d # 0
\* a / b on floats (numpy): 0/0 is NaN, x/0 is +-inf; never raises
FDiv(a, b) ==
    IF ~IsFinite(a) \/ ~IsFinite(b) THEN NaNf
    ELSE IF b.n >= 0 THEN Frac(a.n * b.d, a.d * b.n)
    ELSE Frac(0 - a.n * b.d, 0 - a.d * b.n)
FMul(a, b) == IF IsNaN(a) \/ IsNaN(b) THEN NaNf ELSE Frac(a.n * b.n, a.d * b.d)
FAdd(a, b) == IF IsNaN(a) \/ IsNaN(b) THEN NaNf
              ELSE Frac(a.n * b.d + b.n * a.d, a.d * b.d)
\* a == b on floats: NaN equals nothing
FEq(a, b) == IsFinite(a) /\ IsFinite(b) /\ a.n * b.d = b.n * a.d
FLess(a, b) == IsFinite(a) /\ IsFinite(b) /\ a.n * b.d < b.n * a.d

(* ------------------------------ sequences ------------------------------ *)
Range(s) == {s[i] : i \in DOMAIN s}

RECURSIVE SumSeq(_)
SumSeq(s) == IF s = <<>> THEN 0 ELSE Head(s) + SumSeq(Tail(s))

Column(rows, c) == [i \in DOMAIN rows |-> rows[i][c]]

(* ------------------------------ DataFrame ------------------------------ *)
\* a DataFrame: the identity of the object, its column names and its rows
\* (functions column -> value).  Two frames with the same id are one object:
\* what is written through one name is seen through the other.
DataFrame(id, cols, rows) == [id |-> id, columns |-> cols, rows |-> rows]
EmptyDF == DataFrame(<<>>, {}, <<>>)
\* df[c]: the Series of column c
Col(df, c) == Column(df.rows, c)
\* Series.isin(S), Series == v, Series >= v, Series <= v, mask & mask
IsIn(col, S) == [i \in DOMAIN col |-> col[i] \in S]
Eq(col, v) == [i \in DOMAIN col |-> col[i] = v]
Ge(col, v) == [i \in DOMAIN col |-> col[i] >= v]
Le(col, v) == [i \in DOMAIN col |-> col[i] <= v]
And(m1, m2) == [i \in DOMAIN m1 |-> m1[i] /\ m2[i]]
\* the rows at which the boolean mask is true, in order
RECURSIVE TakeRows(_, _)
TakeRows(rows, mask) ==
    IF rows = <<>> THEN <<>>
    ELSE LET n == Len(rows)
             rest == TakeRows(SubSeq(rows, 1, n - 1), SubSeq(mask, 1, n - 1))
         IN IF mask[n] THEN Append(rest, rows[n]) ELSE rest
\* df[mask]: a new object holding the rows at which the mask is true
Where(df, mask) == DataFrame(Append(df.id, "idx"), df.columns, TakeRows(df.rows, mask))
\* df[c] = values: column c of the object df is set, in place
SetColumn(df, c, values) ==
    DataFrame(df.id, df.columns \cup {c},
              [i \in DOMAIN df.rows |-> (c :> values[i]) @@ df.rows[i]])
\* a plain assignment where the code copies: both names are one object
CopyAlias(df) == df
\* df.copy(): a new object with the same content
Copy(df) == DataFrame(Append(df.id, "copy"), df.columns, df.rows)
\* the content, once the run is over, of the object that name df was bound
\* to, where last is the last frame the run wrote
Deref(df, last) == IF last.id = df.id THEN last ELSE df
\* pd.read_csv(file): a new object
ReadCsv(file, name) == DataFrame(<<name>>, file.columns, file.rows)
\* Series.unique()
Unique(df, c) == {df.rows[i][c] : i \in DOMAIN df.rows}

(* a missing value (NaN / None) in a text column *)
NaN == <<"#NaN">>

(* -------------------------------- text --------------------------------- *)
\* index of the last "," token of s, 0 when there is none
LastComma(s) ==
    LET at == {i \in DOMAIN s : s[i] = ","}
    IN IF at = {} THEN 0 ELSE CHOOSE i \in at : \A j \in at : j <= i
\* s.split(",")[-1]
SplitLast(s) == SubSeq(s, LastComma(s) + 1, Len(s))
RECURSIVE LStrip(_)
LStrip(s) == IF s # <<>> /\ Head(s) = " " THEN LStrip(Tail(s)) ELSE s
RECURSIVE RStrip(_)
RStrip(s) ==
    IF s # <<>> /\ s[Len(s)] = " " THEN RStrip(SubSeq(s, 1, Len(s) - 1)) ELSE s
\* s.strip()
Strip(s) == RStrip(LStrip(s))
\* Series.astype(str) on one cell: a missing value becomes the text "nan"
AsTypeStr(v) == IF v = NaN THEN <<"nan">> ELSE v
\* Series.str.split(",").str[-1].str.strip() on one cell: .str keeps NaN
StrSplitLastStrip(v) == IF v = NaN THEN NaN ELSE Strip(SplitLast(v))

(* ------------------------------- dates --------------------------------- *)
\* pd.to_datetime of a CSV cell <<day, half>>
ParseDatetime(cell) == cell[1] * HalvesPerDay + cell[2]
\* pd.to_datetime of a value that is a Timestamp already (line 506)
ReparseDatetime(ts) == ts
\* pd.to_datetime of a datetime.date (midnight of that day)
DateToDatetime(d) == d * HalvesPerDay
\* the date st.date_input keeps of a Timestamp given as its default value
TimestampToDate(ts) == ts \div HalvesPerDay
\* Series.dt.day (months of 31 days, day 1 is the first of a month)
DtDay(ts) == (((ts \div HalvesPerDay) - 1) % 31) + 1
SeqMin(s) == CHOOSE x \in Range(s) : \A y \in Range(s) : x <= y
SeqMax(s) == CHOOSE x \in Range(s) : \A y \in Range(s) : y <= x

(* ---------------------------- login system ----------------------------- *)
USERS == [u \in {"admin"} |-> "1234"]
\* a check of the user name alone
CredentialsOkAnyPassword(username, password) == username \in DOMAIN USERS
\* USERS.get(username) == password; a text input never returns None
CredentialsOk(username, password) ==
    username \in DOMAIN USERS /\ USERS[username] = password

(* ------------------------------ load data ------------------------------ *)
\* load_data(): both files read, the date columns parsed
LoadLoans(file) ==
    LET loans == ReadCsv(file, "loans")
    IN SetColumn(loans, "application_date",
                 [i \in DOMAIN loans.rows |->
                    ParseDatetime(loans.rows[i]["application_date"])])
LoadTxns(file) ==
    LET txns == ReadCsv(file, "txns")
    IN IF "transaction_date" \in txns.columns
       THEN SetColumn(txns, "transaction_date",
                      [i \in DOMAIN txns.rows |->
                         ParseDatetime(txns.rows[i]["transaction_date"])])
       ELSE txns
\* lines 63-66: the State column is written into txn_df itself
ExtractState(txn_df) ==
    IF "transaction_location" \in txn_df.columns
    THEN SetColumn(txn_df, "State",
                   [i \in DOMAIN txn_df.rows |->
                      StrSplitLastStrip(AsTypeStr(txn_df.rows[i]["transaction_location"]))])
    ELSE txn_df
MissingLocationMsg == "transaction_location column not found in transactions.csv"

(* ------------------------------- sidebar ------------------------------- *)
Pages == {"Executive Loan Portfolio", "Fraud Intelligence & Risk Mitigation",
          "Behavioral Risk Analysis"}
\* what every widget returns on the first run that renders it
DefaultWidgets(loan_df) ==
    [page |-> "Executive Loan Portfolio",
     loan_type_filter |-> {}, employment_filter |-> {}, gender_filter |-> {},
     device_filter |-> {}, state_filter |-> {},
     date_range |-> <<TimestampToDate(SeqMin(Column(loan_df.rows, "application_date"))),
                      TimestampToDate(SeqMax(Column(loan_df.rows, "application_date")))>>]
\* the widgets a run renders before line 84, and all of them
EarlyWidgets == {"logout", "page", "loan_type_filter", "employment_filter",
                 "gender_filter", "device_filter"}
AllWidgets == EarlyWidgets \cup {"state_filter", "date_range"}

(* ---------------------------- apply filters ---------------------------- *)
\* the loan filter with the end of the date range excluded
FilterLoansEndExclusive(loan_df, w) ==
    LET f0 == Copy(loan_df)
        f1 == IF w.loan_type_filter # {}
              THEN Where(f0, IsIn(Col(f0, "loan_type"), w.loan_type_filter))
              ELSE f0
        f2 == IF w.employment_filter # {}
              THEN Where(f1, IsIn(Col(f1, "employment_status"), w.employment_filter))
              ELSE f1
        f3 == IF w.gender_filter # {}
              THEN Where(f2, IsIn(Col(f2, "gender"), w.gender_filter))
              ELSE f2
        start_date == DateToDatetime(w.date_range[1])
        end_date == DateToDatetime(w.date_range[2])
    IN Where(f3, And(Ge(Col(f3, "application_date"), start_date),
                     [i \in DOMAIN f3.rows |->
                        f3.rows[i]["application_date"] < end_date]))
\* lines 92-102 and 110-114
FilterLoans(loan_df, w) ==
    LET f0 == Copy(loan_df)
        f1 == IF w.loan_type_filter # {}
              THEN Where(f0, IsIn(Col(f0, "loan_type"), w.loan_type_filter))
              ELSE f0
        f2 == IF w.employment_filter # {}
              THEN Where(f1, IsIn(Col(f1, "employment_status"), w.employment_filter))
              ELSE f1
        f3 == IF w.gender_filter # {}
              THEN Where(f2, IsIn(Col(f2, "gender"), w.gender_filter))
              ELSE f2
        start_date == DateToDatetime(w.date_range[1])
        end_date == DateToDatetime(w.date_range[2])
    IN Where(f3, And(Ge(Col(f3, "application_date"), start_date),
                     Le(Col(f3, "application_date"), end_date)))
\* lines 93 and 104-108
FilterTxns(txn_df, w) ==
    LET f0 == Copy(txn_df)
        f1 == IF w.device_filter # {}
              THEN Where(f0, IsIn(Col(f0, "device_used"), w.device_filter))
              ELSE f0
    IN IF w.state_filter # {}
       THEN Where(f1, IsIn(Col(f1, "State"), w.state_filter))
       ELSE f1

(* ----------------------------- aggregation ----------------------------- *)
\* the number of rows at which a mask is true
Count(mask) == Cardinality({i \in DOMAIN mask : mask[i]})
\* Python scalar a / b * 100 guarded by "if b else 0"
GuardedRatio(a, b) == IF b # 0 THEN Frac(a, b) ELSE Num(0)
\* Series.mean(): NaN on an empty column
Mean(col) == IF col = <<>> THEN NaNf ELSE Frac(SumSeq(col), Len(col))
\* Series.nunique()
NUnique(col) == Cardinality(Range(col))
RECURSIVE SumOver(_, _)
\* sum of field f over a set of records
SumOver(S, f) ==
    IF S = {} THEN 0
    ELSE LET g == CHOOSE x \in S : TRUE IN g[f] + SumOver(S \ {g}, f)
\* groupby([a, b]).size().reset_index(name="count")
GroupSize(rows, a, b) ==
    {[k1 |-> k[1], k2 |-> k[2],
      value |-> Count(And(Eq(Column(rows, a), k[1]), Eq(Column(rows, b), k[2])))]
       : k \in {<<rows[i][a], rows[i][b]>> : i \in DOMAIN rows}}
\* groupby([a, b])[c].nunique().reset_index(name=...)
GroupNUnique(rows, a, b, c) ==
    {[k1 |-> k[1], k2 |-> k[2],
      value |-> NUnique(Column(TakeRows(rows, And(Eq(Column(rows, a), k[1]),
                                                   Eq(Column(rows, b), k[2]))), c))]
       : k \in {<<rows[i][a], rows[i][b]>> : i \in DOMAIN rows}}
\* groupby(keys)[c].sum().reset_index(); keys is the Series grouped by
GroupSum(rows, keys, c) ==
    {[k1 |-> k, value |-> SumSeq(Column(TakeRows(rows, Eq(keys, k)), c))]
       : k \in Range(keys)}
\* x / x.sum() * 100 on one value of a group whose values sum to total
PctOf(value, total) == FMul(FDiv(Num(value), Num(total)), Num(100))
\* g["pct"] = g.groupby(k1)[value].transform(lambda x: x / x.sum() * 100)
TransformPct(groups) ==
    {[k1 |-> g.k1, k2 |-> g.k2, value |-> g.value,
      pct |-> PctOf(g.value, SumOver({h \in groups : h.k1 = g.k1}, "value"))]
       : g \in groups}
\* g["pct"] = g[value] / g[value].sum() * 100
WholePct(groups) ==
    {[k1 |-> g.k1, value |-> g.value,
      pct |-> PctOf(g.value, SumOver(groups, "value"))] : g \in groups}

\* the distinct values of a column in the order they first appear
RECURSIVE FirstSeen(_)
FirstSeen(col) ==
    IF col = <<>> THEN <<>>
    ELSE LET rest == FirstSeen(SubSeq(col, 1, Len(col) - 1))
             v == col[Len(col)]
         IN IF v \in Range(rest) THEN rest ELSE Append(rest, v)
\* stable insertion of e into a sequence sorted by non-increasing count
RECURSIVE InsertDesc(_, _)
InsertDesc(sorted, e) ==
    IF sorted = <<>> THEN <<e>>
    ELSE IF Head(sorted).count >= e.count
         THEN <<Head(sorted)>> \o InsertDesc(Tail(sorted), e)
         ELSE <<e>> \o sorted
RECURSIVE SortDesc(_)
SortDesc(s) ==
    IF s = <<>> THEN <<>>
    ELSE InsertDesc(SortDesc(SubSeq(s, 1, Len(s) - 1)), s[Len(s)])
\* Series.dropna() on a text column
DropNa(col) == TakeRows(col, [i \in DOMAIN col |-> col[i] # NaN])
\* value_counts(sort=False): the entries in first-seen order
ValueCountsUnsorted(col) ==
    LET u == FirstSeen(col)
    IN [i \in DOMAIN u |->
          [value |-> u[i], count |-> Count(Eq(col, u[i]))]]
\* Series.value_counts() of a column without missing values: one entry per
\* distinct value, most frequent first, ties in first-seen order
ValueCounts(col) ==
    LET u == FirstSeen(col)
    IN SortDesc([i \in DOMAIN u |->
                   [value |-> u[i], count |-> Count(Eq(col, u[i]))]])
\* Series.head(n)
HeadN(s, n) == SubSeq(s, 1, IF Len(s) < n THEN Len(s) ELSE n)

(* ----------------------------- derivations ----------------------------- *)
age_bins == <<0, 25, 35, 45, 55, 100>>
age_labels == <<"18-25", "26-35", "36-45", "46-55", "56+">>
\* a missing label (NaN of a categorical column)
NoLabel == "#NaN"
\* pd.cut with include_lowest=True: the first edge belongs to the first bin
CutIncludeLowest(x, bins, labels) ==
    LET idx == Cardinality({i \in DOMAIN bins : bins[i] < x})
    IN IF x = bins[1] THEN labels[1]
       ELSE IF idx = 0 \/ idx = Len(bins) THEN NoLabel ELSE labels[idx]
\* pd.cut(x, bins, labels) with its defaults right=True, include_lowest=False:
\* the bin index is the number of edges strictly below x (searchsorted, left)
Cut(x, bins, labels) ==
    LET idx == Cardinality({i \in DOMAIN bins : bins[i] < x})
    IN IF idx = 0 \/ idx = Len(bins) THEN NoLabel ELSE labels[idx]

\* dti_category with the fourth band ending at 50, as its label reads
dti_categoryHighTo50(x) ==
    IF x < 20 * DtiScale THEN "Excellent (<20)"
    ELSE IF 20 * DtiScale <= x /\ x <= 35 * DtiScale THEN "Good (20-35)"
    ELSE IF 36 * DtiScale <= x /\ x <= 40 * DtiScale THEN "Fair (36-40)"
    ELSE IF 40 * DtiScale < x /\ x <= 50 * DtiScale THEN "High Risk (40-50)"
    ELSE "Out of Range"
\* dti_category with the third band widened to close the gap above 35
dti_categoryNoGap(x) ==
    IF x < 20 * DtiScale THEN "Excellent (<20)"
    ELSE IF 20 * DtiScale <= x /\ x <= 35 * DtiScale THEN "Good (20-35)"
    ELSE IF 35 * DtiScale < x /\ x <= 40 * DtiScale THEN "Fair (36-40)"
    ELSE IF 40 * DtiScale < x /\ x <= 100 * DtiScale THEN "High Risk (40-50)"
    ELSE "Out of Range"
\* dti_category(x), x in tenths; the labels are written with "-" for the
\* source's en dash
dti_category(x) ==
    IF x < 20 * DtiScale THEN "Excellent (<20)"
    ELSE IF 20 * DtiScale <= x /\ x <= 35 * DtiScale THEN "Good (20-35)"
    ELSE IF 36 * DtiScale <= x /\ x <= 40 * DtiScale THEN "Fair (36-40)"
    ELSE IF 40 * DtiScale < x /\ x <= 100 * DtiScale THEN "High Risk (40-50)"
    ELSE "Out of Range"

(* -------------------------------- views -------------------------------- *)
NoCharts == [none |-> TRUE]
NoMetrics == [none |-> TRUE]
ViewResult(page, exc, fl, ft, metrics, charts) ==
    [page |-> page, exception |-> exc, filtered_loans |-> fl,
     filtered_txns |-> ft, metrics |-> metrics, charts |-> charts]

\* lines 121-210
ExecutiveView(filtered_loans, filtered_txns) ==
    LET rows == filtered_loans.rows
        total_apps == Len(rows)
        grand_total_amount == SumSeq(Column(rows, "loan_amount_requested"))
        avg_cibil == Mean(Column(rows, "cibil_score"))
        approval_rate ==
            IF total_apps > 0
            THEN FMul(Frac(Count(Eq(Column(rows, "loan_status"), "Approved")),
                           total_apps), Num(100))
            ELSE Num(0)
        avg_income == Mean(Column(rows, "monthly_income"))
        demand_grouped ==
            {[k1 |-> k[1], k2 |-> k[2],
              value |-> SumSeq(Column(TakeRows(rows,
                          And(Eq(Column(rows, "loan_type"), k[1]),
                              Eq(Column(rows, "loan_status"), k[2]))),
                          "loan_amount_requested"))]
               : k \in {<<rows[i]["loan_type"], rows[i]["loan_status"]>> : i \in DOMAIN rows}}
        demand_pct == {[k1 |-> g.k1, k2 |-> g.k2, value |-> g.value,
                        pct |-> PctOf(g.value, grand_total_amount)] : g \in demand_grouped}
        with_age == SetColumn(filtered_loans, "age_group",
                        [i \in DOMAIN rows |->
                           Cut(rows[i]["applicant_age"], age_bins, age_labels)])
        age_df == {[age_group |-> age_labels[i],
                    count |-> Count(Eq(Col(with_age, "age_group"), age_labels[i])),
                    pct |-> IF total_apps > 0
                            THEN PctOf(Count(Eq(Col(with_age, "age_group"), age_labels[i])),
                                       total_apps)
                            ELSE Num(0)] : i \in DOMAIN age_labels}
        status_df == ValueCounts(Column(rows, "loan_status"))
    IN ViewResult("Executive Loan Portfolio", "none", with_age, filtered_txns,
                  [total_apps |-> total_apps, grand_total_amount |-> grand_total_amount,
                   avg_cibil |-> avg_cibil, approval_rate |-> approval_rate,
                   avg_income |-> avg_income],
                  [demand_grouped |-> demand_pct, age_df |-> age_df,
                   status_df |-> status_df])

TopN == 10
\* lines 360-367: value_counts(normalize=True).head(10), then pct *= 100
StateFraud(fraud_txns) ==
    LET vc == ValueCounts(DropNa(Column(fraud_txns.rows, "State")))
        total == SumSeq([i \in DOMAIN vc |-> vc[i].count])
        normalized == [i \in DOMAIN vc |->
                         [State |-> vc[i].value, pct |-> FDiv(Num(vc[i].count), Num(total))]]
        top == HeadN(normalized, TopN)
    IN [i \in DOMAIN top |-> [State |-> top[i].State, pct |-> FMul(top[i].pct, Num(100))]]

\* one rate over loans and transactions pooled
FraudRatePooled(n_fraud_loans, total_loan_apps, n_fraud_txns, total_txns) ==
    FMul(GuardedRatio(n_fraud_loans + n_fraud_txns, total_loan_apps + total_txns),
         Num(100))
\* lines 261-263, on the four counts
FraudRate(n_fraud_loans, total_loan_apps, n_fraud_txns, total_txns) ==
    LET loan_fraud_rate == GuardedRatio(n_fraud_loans, total_loan_apps)
        txn_fraud_rate == GuardedRatio(n_fraud_txns, total_txns)
    IN FMul(FAdd(loan_fraud_rate, txn_fraud_rate), Num(100))
\* lines 252-263
TotalFraudRate(filtered_loans, filtered_txns) ==
    LET total_loan_apps == Len(filtered_loans.rows)
        total_txns == Len(filtered_txns.rows)
        fraud_loans == Where(filtered_loans, Eq(Col(filtered_loans, "fraud_flag"), 1))
        fraud_txns == Where(filtered_txns, Eq(Col(filtered_txns, "fraud_flag"), 1))
    IN FraudRate(Len(fraud_loans.rows), total_loan_apps, Len(fraud_txns.rows), total_txns)

\* lines 220-404
FraudView(loans_in, txns_in) ==
    LET filtered_txns == SetColumn(txns_in, "State",
                            [i \in DOMAIN txns_in.rows |->
                               StrSplitLastStrip(txns_in.rows[i]["transaction_location"])])
        filtered_loans == SetColumn(loans_in, "DTI_Risk_Category",
                            [i \in DOMAIN loans_in.rows |->
                               dti_category(loans_in.rows[i]["debt_to_income_ratio"])])
        fraud_loans == Where(filtered_loans, Eq(Col(filtered_loans, "fraud_flag"), 1))
        fraud_txns == Where(filtered_txns, Eq(Col(filtered_txns, "fraud_flag"), 1))
        total_fraud == Len(fraud_loans.rows)
        total_fraud_rate == TotalFraudRate(filtered_loans, filtered_txns)
        total_fraud_value ==
            SumSeq(Column(fraud_loans.rows, "loan_amount_requested"))
            + SumSeq(Column(fraud_txns.rows, "transaction_amount"))
        undetected_fraud ==
            Where(fraud_loans, Eq(Col(fraud_loans, "loan_status"), "Fraudulent - Undetected"))
        undetected_pct ==
            IF total_fraud # 0
            THEN FMul(Frac(Len(undetected_fraud.rows), total_fraud), Num(100))
            ELSE Num(0)
        total_customers == NUnique(Column(filtered_loans.rows, "customer_id"))
        risk_density ==
            IF total_customers # 0
            THEN FMul(Frac(total_fraud, total_customers), Num(1000))
            ELSE Num(0)
        emp_fraud == TransformPct(GroupSize(fraud_loans.rows, "employment_status", "fraud_type"))
        dti_fraud == TransformPct(GroupSize(filtered_loans.rows, "DTI_Risk_Category", "fraud_flag"))
        txn_amt == GroupSum(filtered_txns.rows, Col(filtered_txns, "fraud_flag"),
                           "transaction_amount")
        state_fraud == StateFraud(fraud_txns)
        prop_fraud == TransformPct(GroupNUnique(filtered_loans.rows,
                          "property_ownership_status", "fraud_flag", "customer_id"))
    IN ViewResult("Fraud Intelligence & Risk Mitigation", "none",
                  filtered_loans, filtered_txns,
                  [total_fraud_rate |-> total_fraud_rate,
                   total_fraud_value |-> total_fraud_value,
                   undetected_pct |-> undetected_pct, risk_density |-> risk_density],
                  [emp_fraud |-> emp_fraud, dti_fraud |-> dti_fraud, txn_amt |-> txn_amt,
                   state_fraud |-> state_fraud, prop_fraud |-> prop_fraud])

\* lines 409-563
BehavioralView(filtered_loans, txns_in) ==
    LET rows == txns_in.rows
        total_transactions == Len(rows)
        total_customers == NUnique(Column(rows, "customer_id"))
        avg_transaction_value == Mean(Column(rows, "transaction_amount"))
        \* line 416: a Python int division, not guarded
        success_rate == FMul(Frac(Count(Eq(Column(rows, "fraud_flag"), 0)),
                                  total_transactions), Num(100))
        location_counts == ValueCounts(DropNa(Column(rows, "transaction_location")))
        type_counts == ValueCounts(Column(rows, "transaction_type"))
        cat_spend == GroupSum(rows, Column(rows, "transaction_type"), "transaction_amount")
        device_risk == TransformPct(GroupSize(rows, "device_used", "fraud_flag"))
        intl_dom == WholePct(GroupSum(rows, Column(rows, "is_international_transaction"),
                                      "transaction_amount"))
        filtered_txns == SetColumn(txns_in, "transaction_date",
                                   [i \in DOMAIN rows |->
                                      ReparseDatetime(rows[i]["transaction_date"])])
        velocity == WholePct(GroupSum(filtered_txns.rows,
                                [i \in DOMAIN filtered_txns.rows |->
                                   DtDay(filtered_txns.rows[i]["transaction_date"])],
                                "transaction_amount"))
        fraud_device == TransformPct(GroupSize(filtered_txns.rows, "device_used", "fraud_flag"))
    IN IF total_transactions = 0
       THEN ViewResult("Behavioral Risk Analysis", "ZeroDivisionError",
                       filtered_loans, txns_in, NoMetrics, NoCharts)
       ELSE IF location_counts = <<>>
       THEN ViewResult("Behavioral Risk Analysis", "ValueError",
                       filtered_loans, txns_in, NoMetrics, NoCharts)
       ELSE ViewResult("Behavioral Risk Analysis", "none", filtered_loans, filtered_txns,
                  [total_transactions |-> total_transactions,
                   total_customers |-> total_customers,
                   avg_transaction_value |-> avg_transaction_value,
                   success_rate |-> success_rate,
                   top_location |-> location_counts[1].value,
                   top_txn_type |-> type_counts[1].value],
                  [cat_spend |-> cat_spend, device_risk |-> device_risk,
                   intl_dom |-> intl_dom, velocity |-> velocity,
                   fraud_device |-> fraud_device])

(* ----------------------------- a script run ---------------------------- *)
RunResult(reached, gate, login_error, messages, exc, rendered, loaded_loans, loaded_txns, loan_df, txn_df, fl, ft, view) ==
    [reached |-> reached, gate |-> gate, login_error |-> login_error,
     messages |-> messages, exception |-> exc, rendered |-> rendered,
     loaded_loans |-> loaded_loans, loaded_txns |-> loaded_txns,
     loan_df |-> loan_df, txn_df |-> txn_df,
     filtered_loans |-> fl, filtered_txns |-> ft, view |-> view]
NoView == ViewResult("none", "none", EmptyDF, EmptyDF, NoMetrics, NoCharts)
\* lines 37-39: login() and st.stop()
LoginForm(gate, login_error) ==
    RunResult("login", gate, login_error, {}, "none", {"login"},
              EmptyDF, EmptyDF, EmptyDF, EmptyDF, EmptyDF, EmptyDF, NoView)
\* lines 121, 220, 409
RenderView(page, fl, ft) ==
    IF page = "Executive Loan Portfolio" THEN ExecutiveView(fl, ft)
    ELSE IF page = "Fraud Intelligence & Risk Mitigation" THEN FraudView(fl, ft)
    ELSE BehavioralView(fl, ft)
\* line 37: the gate lets a run through when the session flag is set
GateOpen(auth) == auth
\* one run of the script below the login() call, with the session flag auth
\* and the widget values w
Script(auth, w, lcsv, tcsv) ==
    IF ~GateOpen(auth) THEN LoginForm(auth, FALSE)
    ELSE
    LET loaded_loans == LoadLoans(lcsv)
        loaded_txns == LoadTxns(tcsv)
        loan_df == loaded_loans
        txn_df == ExtractState(loaded_txns)
        messages == IF "transaction_location" \in loaded_txns.columns
                    THEN {} ELSE {MissingLocationMsg}
        fl == FilterLoans(loan_df, w)
        ft == FilterTxns(txn_df, w)
    IN IF "State" \notin txn_df.columns
       THEN \* line 84: txn_df["State"]
            RunResult("dashboard", auth, FALSE, messages, "KeyError", EarlyWidgets,
                      loaded_loans, loaded_txns, loan_df, txn_df, EmptyDF, EmptyDF, NoView)
       ELSE IF Len(w.date_range) < 2
       THEN \* line 110: date_range[1] while the user has picked one day only
            RunResult("dashboard", auth, FALSE, messages, "IndexError", AllWidgets,
                      loaded_loans, loaded_txns, loan_df, txn_df, EmptyDF, EmptyDF, NoView)
       ELSE LET view == RenderView(w.page, fl, ft)
            IN RunResult("dashboard", auth, FALSE, messages, view.exception, AllWidgets,
                         loaded_loans, loaded_txns,
                         Deref(loan_df, view.filtered_loans),
                         Deref(txn_df, view.filtered_txns), fl, ft, view)

(* ------------------------------- inputs -------------------------------- *)
LoanColumns == {"customer_id", "loan_type", "employment_status", "gender",
                "application_date", "loan_amount_requested", "cibil_score",
                "monthly_income", "loan_status", "applicant_age",
                "debt_to_income_ratio", "fraud_flag", "fraud_type",
                "property_ownership_status"}
TxnColumns == {"customer_id", "device_used", "transaction_location",
               "transaction_type", "transaction_amount",
               "is_international_transaction", "fraud_flag", "transaction_date"}
LoanRow(id, type, emp, gender, date, amount, status, age, dti, fraud, ftype, prop) ==
    [customer_id |-> id, loan_type |-> type, employment_status |-> emp,
     gender |-> gender, application_date |-> date, loan_amount_requested |-> amount,
     cibil_score |-> 700, monthly_income |-> 50, loan_status |-> status,
     applicant_age |-> age, debt_to_income_ratio |-> dti, fraud_flag |-> fraud,
     fraud_type |-> ftype, property_ownership_status |-> prop]
TxnRow(id, device, location, type, amount, intl, fraud, date) ==
    [customer_id |-> id, device_used |-> device, transaction_location |-> location,
     transaction_type |-> type, transaction_amount |-> amount,
     is_international_transaction |-> intl, fraud_flag |-> fraud,
     transaction_date |-> date]
\* the rows of cat whose index is in S, in order
RECURSIVE PickRows(_, _)
PickRows(cat, S) ==
    IF cat = <<>> THEN <<>>
    ELSE LET rest == PickRows(SubSeq(cat, 1, Len(cat) - 1), S)
         IN IF Len(cat) \in S THEN Append(rest, cat[Len(cat)]) ELSE rest
File(cols, rows) == DataFrame(<<>>, cols, rows)
SubTables(cols, cat) == {File(cols, PickRows(cat, S)) : S \in SUBSET DOMAIN cat}
\* a table read from a file that has no column c
WithoutColumn(df, c) ==
    DataFrame(df.id, df.columns \ {c},
              [i \in DOMAIN df.rows |->
                 [k \in DOMAIN df.rows[i] \ {c} |-> df.rows[i][k]]])

LoanCatalog ==
    << LoanRow(1, "Home", "Salaried", "Male", <<1, 1>>, 100, "Approved",
               30, 250, 0, "None", "Owned"),
       LoanRow(2, "Car", "Self-Employed", "Female", <<2, 0>>, 300,
               "Fraudulent - Undetected", 50, 380, 1, "Identity Theft", "Rented") >>
TxnCatalog ==
    << TxnRow(1, "Mobile", <<"Kochi", " ", ",", " ", "KL", " ">>, "UPI", 0, 0, 1, <<1, 0>>),
       TxnRow(2, "Web", NaN, "Card", 60, 1, 0, <<2, 1>>) >>
LoanTables == {t \in SubTables(LoanColumns, LoanCatalog) : t.rows # <<>>}
TxnTables ==
    SubTables(TxnColumns, TxnCatalog)
    \cup {WithoutColumn(t, "transaction_location") : t \in SubTables(TxnColumns, TxnCatalog)}

Days == 1..MaxDay
\* what st.date_input returns for a range: one date while the user is still
\* picking, two dates once the range is complete
DateRanges == {<<a>> : a \in Days}
              \cup {r \in {<<a, b>> : a \in Days, b \in Days} : r[1] <= r[2]}
Usernames == {"admin", "user", ""}
Passwords == {"1234", "admin", ""}

(* ------------------------------- actions ------------------------------- *)
NoWidgets ==
    [page |-> "none", loan_type_filter |-> {}, employment_filter |-> {},
     gender_filter |-> {}, device_filter |-> {}, state_filter |-> {},
     date_range |-> <<>>]
NoAuthEvent == [event |-> "none", username |-> "", password |-> ""]

\* in is a set of pairs <<loans file, transactions file>>
InitWith(in) ==
    /\ \E files \in in : loans_csv = files[1] /\ txns_csv = files[2]
    /\ authenticated = FALSE
    /\ widgets = NoWidgets
    /\ run = LoginForm(FALSE, FALSE)
    /\ last_auth = NoAuthEvent

\* every loan table with one transaction, and one loan with every
\* transaction table
Inputs ==
    (LoanTables \X {File(TxnColumns, PickRows(TxnCatalog, {1}))})
    \cup ({File(LoanColumns, PickRows(LoanCatalog, {1}))} \X TxnTables)

Init == InitWith(Inputs)

\* lines 20-30: the Login button with the two text inputs filled in
ClickLogin(username, password) ==
    /\ "login" \in run.rendered
    /\ last_auth' = [event |-> "login", username |-> username, password |-> password]
    /\ IF CredentialsOk(username, password)
       THEN /\ authenticated' = TRUE
            /\ widgets' = DefaultWidgets(LoadLoans(loans_csv))
            /\ run' = Script(authenticated', widgets', loans_csv, txns_csv)
       ELSE /\ authenticated' = authenticated
            /\ widgets' = NoWidgets
            /\ run' = LoginForm(authenticated, TRUE)
    /\ UNCHANGED <<loans_csv, txns_csv>>

\* lines 32-35: the Logout button, then the rerun
ClickLogout ==
    /\ "logout" \in run.rendered
    /\ last_auth' = [event |-> "logout", username |-> "", password |-> ""]
    /\ authenticated' = FALSE
    /\ widgets' = NoWidgets
    /\ run' = Script(authenticated', widgets', loans_csv, txns_csv)
    /\ UNCHANGED <<loans_csv, txns_csv>>

\* the values a multiselect built on column c of df offers (lines 79-84)
Options(df, c) == IF c \in df.columns THEN Unique(df, c) ELSE {}
\* a widget of the sidebar changes and the script runs again
Rerun(w) ==
    /\ widgets' = w
    /\ run' = Script(authenticated, w, loans_csv, txns_csv)
    /\ UNCHANGED <<loans_csv, txns_csv, authenticated, last_auth>>

SelectPage(p) ==
    /\ "page" \in run.rendered
    /\ Rerun([widgets EXCEPT !.page = p])
SetLoanTypeFilter(v) ==
    /\ "loan_type_filter" \in run.rendered
    /\ v \subseteq Options(run.loan_df, "loan_type")
    /\ Rerun([widgets EXCEPT !.loan_type_filter = v])
SetEmploymentFilter(v) ==
    /\ "employment_filter" \in run.rendered
    /\ v \subseteq Options(run.loan_df, "employment_status")
    /\ Rerun([widgets EXCEPT !.employment_filter = v])
SetGenderFilter(v) ==
    /\ "gender_filter" \in run.rendered
    /\ v \subseteq Options(run.loan_df, "gender")
    /\ Rerun([widgets EXCEPT !.gender_filter = v])
SetDeviceFilter(v) ==
    /\ "device_filter" \in run.rendered
    /\ v \subseteq Options(run.txn_df, "device_used")
    /\ Rerun([widgets EXCEPT !.device_filter = v])
SetStateFilter(v) ==
    /\ "state_filter" \in run.rendered
    /\ v \subseteq Options(run.txn_df, "State")
    /\ Rerun([widgets EXCEPT !.state_filter = v])
SetDateRange(r) ==
    /\ "date_range" \in run.rendered
    /\ Rerun([widgets EXCEPT !.date_range = r])

Next ==
    \/ \E u \in Usernames, p \in Passwords : ClickLogin(u, p)
    \/ ClickLogout
    \/ \E p \in Pages : SelectPage(p)
    \/ \E v \in SUBSET Options(run.loan_df, "loan_type") : SetLoanTypeFilter(v)
    \/ \E v \in SUBSET Options(run.loan_df, "employment_status") : SetEmploymentFilter(v)
    \/ \E v \in SUBSET Options(run.loan_df, "gender") : SetGenderFilter(v)
    \/ \E v \in SUBSET Options(run.txn_df, "device_used") : SetDeviceFilter(v)
    \/ \E v \in SUBSET Options(run.txn_df, "State") : SetStateFilter(v)
    \/ \E r \in DateRanges : SetDateRange(r)

Spec == Init /\ [][Next]_vars

(* ------------- the derivations on every age and every ratio ------------ *)
OneTxn == File(TxnColumns, PickRows(TxnCatalog, {1}))
\* one loan of every age, and one loan of every debt-to-income ratio
DeriveInputs ==
    ({File(LoanColumns, <<LoanRow(1, "Home", "Salaried", "Male", <<1, 0>>, 100,
                                  "Approved", a, 250, 0, "None", "Owned")>>)
        : a \in MinAge..MaxAge}
     \cup {File(LoanColumns, <<LoanRow(1, "Home", "Salaried", "Male", <<1, 0>>, 100,
                                  "Approved", 30, x, 1, "Identity Theft", "Owned")>>)
        : x \in MinDti..MaxDti})
    \X {OneTxn}
\* the user logs in and looks at the views, with the filters left alone
NextView ==
    \/ ClickLogin("admin", "1234")
    \/ ClickLogout
    \/ \E p \in Pages : SelectPage(p)
SpecDerive == InitWith(DeriveInputs) /\ [][NextView]_vars

(* ------------------ transaction tables with many states ---------------- *)
StateNames == <<"AP", "AR", "AS", "BR", "CG", "GA", "GJ", "HR", "HP", "JH",
                "KA", "KL", "MP", "MH">>
FraudTxnIn(s) == TxnRow(s, "Mobile", <<"City", ",", " ", StateNames[s]>>,
                        "UPI", 10, 0, 1, <<1, 0>>)
\* a table with one fraud transaction in each of the states 1..k, extra more
\* in state e (when e > 0), a transaction without fraud, and with nan = 1 a
\* fraud transaction whose location is missing
TopTable(k, e, extra, nan) ==
    File(TxnColumns,
         <<TxnRow(99, "Web", <<"City", ",", StateNames[1]>>, "Card", 10, 0, 0, <<1, 0>>)>>
         \o [s \in 1..k |-> FraudTxnIn(s)]
         \o (IF e > 0 THEN [i \in 1..extra |-> FraudTxnIn(e)] ELSE <<>>)
         \o (IF nan = 1
             THEN <<TxnRow(98, "Mobile", NaN, "UPI", 10, 0, 1, <<1, 0>>)>>
             ELSE <<>>))
TopInputs ==
    {File(LoanColumns, PickRows(LoanCatalog, {2}))}
    \X {TopTable(k, e, extra, nan) :
           k \in 0..MaxStates, e \in 0..MaxStates, extra \in 1..2, nan \in 0..1}
SpecTop == InitWith(TopInputs) /\ [][NextView]_vars

(* ------------------------------- claims -------------------------------- *)
\* the last run went through the gate and computed both filtered views
FiltersApplied ==
    run.reached = "dashboard" /\ run.exception \notin {"KeyError", "IndexError"}
ViewRendered(page) == FiltersApplied /\ run.view.page = page
FraudCount(df) == Cardinality({i \in DOMAIN df.rows : df.rows[i]["fraud_flag"] = 1})

\* C1: a run reaches the loading, filtering and aggregation code only if the
\* session flag is true at the gate; the flag is true only if the most recent
\* auth event is a Login click with "admin" / "1234" (no Logout since); at
\* the start, after a failed login and after a Logout the run stops at the
\* login form.
C1_AuthGate ==
    /\ run.reached = "dashboard" => run.gate = TRUE /\ authenticated
    /\ authenticated =>
          /\ last_auth.event = "login"
          /\ last_auth.username = "admin"
          /\ last_auth.password = "1234"
    /\ last_auth.event \in {"none", "logout"} => run.reached = "login"
    /\ (last_auth.event = "login"
          /\ ~(last_auth.username = "admin" /\ last_auth.password = "1234"))
       => run.reached = "login" /\ run.loan_df = EmptyDF /\ run.filtered_loans = EmptyDF
C1_Witness ==
    /\ ViewRendered("Fraud Intelligence & Risk Mitigation")
    /\ run.exception = "none"
    /\ last_auth.event = "login"

LoanPredicate(r, w) ==
    /\ w.loan_type_filter = {} \/ r["loan_type"] \in w.loan_type_filter
    /\ w.employment_filter = {} \/ r["employment_status"] \in w.employment_filter
    /\ w.gender_filter = {} \/ r["gender"] \in w.gender_filter
    /\ DateToDatetime(w.date_range[1]) <= r["application_date"]
    /\ r["application_date"] <= DateToDatetime(w.date_range[2])
TxnPredicate(t, w) ==
    /\ w.device_filter = {} \/ t["device_used"] \in w.device_filter
    /\ w.state_filter = {} \/ t["State"] \in w.state_filter
\* C2: for every filter selection, filtered_loans holds exactly the loan rows
\* that satisfy every active loan predicate and lie in the date range start..end
\* (both ends included, the dates taken as timestamps), filtered_txns exactly
\* the transaction rows that satisfy the device and State predicates; both are
\* subsets of the source tables, an empty selection constrains nothing.
C2_FilteredViews ==
    FiltersApplied =>
      /\ run.filtered_loans.rows
           = SelectSeq(run.loan_df.rows, LAMBDA r : LoanPredicate(r, widgets))
      /\ run.filtered_txns.rows
           = SelectSeq(run.txn_df.rows, LAMBDA t : TxnPredicate(t, widgets))
      /\ Range(run.filtered_loans.rows) \subseteq Range(run.loan_df.rows)
      /\ Range(run.filtered_txns.rows) \subseteq Range(run.txn_df.rows)
C2_Witness ==
    /\ FiltersApplied
    /\ widgets.loan_type_filter # {}
    /\ widgets.employment_filter # {}
    /\ widgets.date_range = <<2, 2>>
    /\ Len(run.filtered_loans.rows) = 1
    /\ Len(run.loan_df.rows) = 2

IsZero(a) == FEq(a, Num(0))
\* C3: with zero rows in the filtered loan view and/or the filtered
\* transaction view, each of the three views renders without raising, every
\* rate or percentage metric is zero and every top metric or aggregation empty.
C3_ZeroRowViewsRender ==
    (FiltersApplied
       /\ (run.filtered_loans.rows = <<>> \/ run.filtered_txns.rows = <<>>))
    => /\ run.exception = "none"
       /\ (run.view.page = "Executive Loan Portfolio" /\ run.filtered_loans.rows = <<>>)
            => IsZero(run.view.metrics.approval_rate)
       /\ (run.view.page = "Fraud Intelligence & Risk Mitigation"
             /\ run.filtered_loans.rows = <<>>)
            => /\ IsZero(run.view.metrics.undetected_pct)
               /\ IsZero(run.view.metrics.risk_density)
               /\ run.view.charts.emp_fraud = {}
       /\ (run.view.page = "Fraud Intelligence & Risk Mitigation"
             /\ run.filtered_txns.rows = <<>>)
            => run.view.charts.state_fraud = <<>>
       /\ (run.view.page = "Fraud Intelligence & Risk Mitigation"
             /\ run.filtered_loans.rows = <<>> /\ run.filtered_txns.rows = <<>>)
            => IsZero(run.view.metrics.total_fraud_rate)
       /\ (run.view.page = "Behavioral Risk Analysis" /\ run.filtered_txns.rows = <<>>)
            => /\ IsZero(run.view.metrics.success_rate)
               /\ run.view.charts.device_risk = {}

\* C5: when transactions.csv has no transaction_location column the script
\* shows one error message and carries on: the sidebar and the view render
\* and no exception is raised.
C5_MissingLocationNonFatal ==
    (run.reached = "dashboard" /\ "transaction_location" \notin run.loaded_txns.columns)
    => /\ run.messages = {MissingLocationMsg}
       /\ run.exception = "none"
       /\ run.rendered = AllWidgets

\* C8 as stated: no run changes loan_df or txn_df after load_data returned.
C8_SourcesNeverMutated ==
    run.reached = "dashboard"
    => run.loan_df = run.loaded_loans /\ run.txn_df = run.loaded_txns
\* C8 as amended: after load_data returned, loan_df is never changed and
\* txn_df is changed only by the State column that lines 63-64 write into it;
\* filtering and the views' derived columns act on other objects.
C8_OnlyStateWritten ==
    run.reached = "dashboard"
    => /\ run.loan_df = run.loaded_loans
       /\ run.txn_df.id = run.loaded_txns.id
       /\ run.txn_df.columns \ {"State"} = run.loaded_txns.columns
       /\ Len(run.txn_df.rows) = Len(run.loaded_txns.rows)
       /\ \A i \in DOMAIN run.txn_df.rows :
            /\ \A c \in run.loaded_txns.columns :
                 run.txn_df.rows[i][c] = run.loaded_txns.rows[i][c]
            /\ "State" \in run.txn_df.columns
                 => run.txn_df.rows[i]["State"]
                      = Strip(SplitLast(AsTypeStr(run.loaded_txns.rows[i]["transaction_location"])))
       /\ FiltersApplied
            => /\ run.view.filtered_loans.id # run.loan_df.id
               /\ run.view.filtered_txns.id # run.txn_df.id
C8_Witness ==
    /\ ViewRendered("Fraud Intelligence & Risk Mitigation")
    /\ "DTI_Risk_Category" \in run.view.filtered_loans.columns
    /\ widgets.device_filter = {} /\ widgets.state_filter = {}
    /\ \E i \in DOMAIN run.view.filtered_txns.rows :
         run.view.filtered_txns.rows[i]["State"] # run.txn_df.rows[i]["State"]

\* C9: the Total Fraud Rate metric is (F_l/N_l + F_t/N_t) * 100 over the
\* filtered views, a term with a zero denominator counting as 0; 10 of 100
\* loans and 20 of 200 transactions give 20.
C9_TotalFraudRate ==
    /\ FEq(FraudRate(10, 100, 20, 200), Num(20))
    /\ (ViewRendered("Fraud Intelligence & Risk Mitigation") /\ run.exception = "none")
       => LET nl == Len(run.filtered_loans.rows)
              nt == Len(run.filtered_txns.rows)
              fl == IF nl = 0 THEN 0 ELSE FraudCount(run.filtered_loans)
              ft == IF nt = 0 THEN 0 ELSE FraudCount(run.filtered_txns)
              dl == IF nl = 0 THEN 1 ELSE nl
              dt == IF nt = 0 THEN 1 ELSE nt
              rate == run.view.metrics.total_fraud_rate
          IN /\ IsFinite(rate)
             /\ rate.n * dl * dt = 100 * (fl * dt + ft * dl) * rate.d
C9_Witness ==
    /\ ViewRendered("Fraud Intelligence & Risk Mitigation")
    /\ Len(run.filtered_loans.rows) = 2
    /\ FraudCount(run.filtered_loans) = 1
    /\ FraudCount(run.filtered_txns) = 1
    /\ FEq(run.view.metrics.total_fraud_rate, Num(150))

RECURSIVE FSumOver(_)
\* the sum of the pct fields of a set of chart rows
FSumOver(S) ==
    IF S = {} THEN Num(0)
    ELSE LET g == CHOOSE x \in S : TRUE IN FAdd(g.pct, FSumOver(S \ {g}))
\* the rows of one outer group sum to 100, or are all 0 when the group's
\* total is zero
GroupPctOk(group) ==
    IF SumOver(group, "value") # 0
    THEN FEq(FSumOver(group), Num(100))
    ELSE \A g \in group : IsZero(g.pct)
ByOuterKeyOk(chart) ==
    \A k \in {g.k1 : g \in chart} : GroupPctOk({g \in chart : g.k1 = k})
\* C4: in every percentage-of-group aggregation the percentages of one outer
\* group sum to 100, unless the group's total (count, distinct count or amount
\* sum) is zero, and then each of them is exactly 0; one device with
\* fraud_flag split 70/30 gives the two values 70 and 30.
C4_GroupPercentages ==
    /\ {g.pct.n : g \in TransformPct({[k1 |-> "Mobile", k2 |-> 0, value |-> 70],
                                      [k1 |-> "Mobile", k2 |-> 1, value |-> 30]})}
         = {7000, 3000}
    /\ (ViewRendered("Fraud Intelligence & Risk Mitigation") /\ run.exception = "none")
       => /\ ByOuterKeyOk(run.view.charts.emp_fraud)
          /\ ByOuterKeyOk(run.view.charts.dti_fraud)
          /\ ByOuterKeyOk(run.view.charts.prop_fraud)
    /\ (ViewRendered("Behavioral Risk Analysis") /\ run.exception = "none")
       => /\ ByOuterKeyOk(run.view.charts.device_risk)
          /\ GroupPctOk(run.view.charts.intl_dom)
          /\ GroupPctOk(run.view.charts.velocity)

\* the label the claim gives an age inside a bin, lower as the first bin's
\* lower end is stated
ClaimedAgeLabel(a, first_bin_from_zero) ==
    IF (IF first_bin_from_zero THEN 0 <= a ELSE 0 < a) /\ a <= 25 THEN "18-25"
    ELSE IF 25 < a /\ a <= 35 THEN "26-35"
    ELSE IF 35 < a /\ a <= 45 THEN "36-45"
    ELSE IF 45 < a /\ a <= 55 THEN "46-55"
    ELSE IF 55 < a /\ a <= 100 THEN "56+"
    ELSE NoLabel
AgeBucketsAre(first_bin_from_zero) ==
    ViewRendered("Executive Loan Portfolio")
    => /\ \A i \in DOMAIN run.view.filtered_loans.rows :
            LET r == run.view.filtered_loans.rows[i]
            IN r["age_group"] = ClaimedAgeLabel(r["applicant_age"], first_bin_from_zero)
       /\ \A g \in run.view.charts.age_df :
            g.count = Cardinality({i \in DOMAIN run.filtered_loans.rows :
                         ClaimedAgeLabel(run.filtered_loans.rows[i]["applicant_age"],
                                         first_bin_from_zero) = g.age_group})
\* C6 as stated: ages 0..25 are labelled "18-25", 26..35 "26-35", 36..45
\* "36-45", 46..55 "46-55", 56..100 "56+", and an age has no label (and is
\* absent from the bucketed counts) exactly when it is below 0 or above 100.
C6_AgeBucketsFromZero == AgeBucketsAre(TRUE)
\* C6 as amended: the first bin is open at 0: ages a with 0 < a <= 25 are
\* labelled "18-25" (the other bins as stated), and an age has no label exactly
\* when a <= 0 or a > 100.
C6_AgeBucketsAboveZero ==
    /\ AgeBucketsAre(FALSE)
    /\ Cut(25, age_bins, age_labels) = "18-25"
    /\ Cut(26, age_bins, age_labels) = "26-35"
    /\ Cut(100, age_bins, age_labels) = "56+"
C6_Witness ==
    /\ ViewRendered("Executive Loan Portfolio")
    /\ \E i \in DOMAIN run.view.filtered_loans.rows :
         /\ run.view.filtered_loans.rows[i]["applicant_age"] = 0
         /\ run.view.filtered_loans.rows[i]["age_group"] = NoLabel
    /\ \A g \in run.view.charts.age_df : g.count = 0

\* C7: dti_category gives x < 20 "Excellent (<20)", 20 <= x <= 35
\* "Good (20-35)", 36 <= x <= 40 "Fair (36-40)", 40 < x <= 100
\* "High Risk (40-50)" and any other x "Out of Range"; so 19.9 is Excellent,
\* 20 and 35 Good, 36 and 40 Fair, 41 High Risk, 150 Out of Range.
C7_DtiCategory ==
    /\ dti_category(199) = "Excellent (<20)"
    /\ dti_category(200) = "Good (20-35)" /\ dti_category(350) = "Good (20-35)"
    /\ dti_category(360) = "Fair (36-40)" /\ dti_category(400) = "Fair (36-40)"
    /\ dti_category(410) = "High Risk (40-50)"
    /\ dti_category(1500) = "Out of Range"
    /\ ViewRendered("Fraud Intelligence & Risk Mitigation")
       => \A i \in DOMAIN run.view.filtered_loans.rows :
            LET x == run.view.filtered_loans.rows[i]["debt_to_income_ratio"]
                c == run.view.filtered_loans.rows[i]["DTI_Risk_Category"]
                excellent == x < 20 * DtiScale
                good == 20 * DtiScale <= x /\ x <= 35 * DtiScale
                fair == 36 * DtiScale <= x /\ x <= 40 * DtiScale
                high == 40 * DtiScale < x /\ x <= 100 * DtiScale
            IN /\ excellent => c = "Excellent (<20)"
               /\ good => c = "Good (20-35)"
               /\ fair => c = "Fair (36-40)"
               /\ high => c = "High Risk (40-50)"
               /\ ~(excellent \/ good \/ fair \/ high) => c = "Out of Range"
C7_Witness ==
    /\ ViewRendered("Fraud Intelligence & Risk Mitigation")
    /\ \E i \in DOMAIN run.view.filtered_loans.rows :
         /\ run.view.filtered_loans.rows[i]["debt_to_income_ratio"] = 355
         /\ run.view.filtered_loans.rows[i]["DTI_Risk_Category"] = "Out of Range"

\* the four named bands of dti_category
DtiBands == {"Excellent (<20)", "Good (20-35)", "Fair (36-40)", "High Risk (40-50)"}
\* C11: among ratios x with 0 <= x <= 100, the DTI_Risk_Category is
\* "Out of Range" for exactly those x with 35 < x < 36 and one of the four
\* named bands for every other x; no x satisfies two bands' conditions.
C11_DtiGapOnly ==
    ViewRendered("Fraud Intelligence & Risk Mitigation")
    => \A i \in DOMAIN run.view.filtered_loans.rows :
         LET x == run.view.filtered_loans.rows[i]["debt_to_income_ratio"]
             c == run.view.filtered_loans.rows[i]["DTI_Risk_Category"]
             conds == <<x < 20 * DtiScale,
                        20 * DtiScale <= x /\ x <= 35 * DtiScale,
                        36 * DtiScale <= x /\ x <= 40 * DtiScale,
                        40 * DtiScale < x /\ x <= 100 * DtiScale>>
         IN /\ (0 <= x /\ x <= 100 * DtiScale)
               => /\ (c = "Out of Range") <=> (35 * DtiScale < x /\ x < 36 * DtiScale)
                  /\ (c # "Out of Range") => c \in DtiBands
            /\ Cardinality({k \in 1..4 : conds[k]}) <= 1
\* a ratio inside 0..100 and outside the gap is rendered with a named band,
\* here 100 itself with the fourth band
C11_Witness ==
    /\ ViewRendered("Fraud Intelligence & Risk Mitigation")
    /\ \E i \in DOMAIN run.view.filtered_loans.rows :
         /\ run.view.filtered_loans.rows[i]["debt_to_income_ratio"] = 100 * DtiScale
         /\ run.view.filtered_loans.rows[i]["DTI_Risk_Category"] = "High Risk (40-50)"

\* the fraud-flagged transactions of the view the Fraud page worked on
ViewFraudTxns ==
    SelectSeq(run.view.filtered_txns.rows, LAMBDA t : t["fraud_flag"] = 1)
FraudIn(state) == Cardinality({i \in DOMAIN ViewFraudTxns : ViewFraudTxns[i]["State"] = state})
FraudStates == {ViewFraudTxns[i]["State"] : i \in DOMAIN ViewFraudTxns} \ {NaN}
\* the chart has at most 10 rows, one per state, by non-increasing percentage,
\* each the state's share of denominator transactions, no omitted state above
\* a returned one
TopStatesOk(chart, denominator) ==
    /\ Len(chart) <= 10
    /\ Len(chart) = (IF Cardinality(FraudStates) < 10 THEN Cardinality(FraudStates) ELSE 10)
    /\ \A i \in DOMAIN chart : chart[i].State \in FraudStates
    /\ \A i, j \in DOMAIN chart : i # j => chart[i].State # chart[j].State
    /\ \A i, j \in DOMAIN chart : i < j => ~FLess(chart[i].pct, chart[j].pct)
    /\ \A i \in DOMAIN chart :
         /\ IsFinite(chart[i].pct)
         /\ chart[i].pct.n * denominator = 100 * FraudIn(chart[i].State) * chart[i].pct.d
    /\ \A s \in FraudStates \ {chart[i].State : i \in DOMAIN chart} :
         \A i \in DOMAIN chart : FraudIn(s) <= FraudIn(chart[i].State)
\* C10 as stated: the top-fraudulent-states aggregation returns at most 10
\* rows, one per distinct State among the fraud-flagged transactions, by
\* non-increasing percentage, each percentage the state's share of all
\* fraud-flagged transactions of the view.
C10_TopStatesShareOfAll ==
    ViewRendered("Fraud Intelligence & Risk Mitigation")
    => TopStatesOk(run.view.charts.state_fraud, Len(ViewFraudTxns))
\* C10 as amended: each percentage is the state's share of the fraud-flagged
\* transactions of the view whose location is not missing.
C10_TopStatesShareOfLocated ==
    ViewRendered("Fraud Intelligence & Risk Mitigation")
    => TopStatesOk(run.view.charts.state_fraud,
                   Cardinality({i \in DOMAIN ViewFraudTxns : ViewFraudTxns[i]["State"] # NaN}))
C10_Witness ==
    /\ ViewRendered("Fraud Intelligence & Risk Mitigation")
    /\ Cardinality(FraudStates) > 10
    /\ Len(run.view.charts.state_fraud) = 10
    /\ run.view.charts.state_fraud[1].State = <<StateNames[11]>>
    /\ FraudIn(<<StateNames[11]>>) = 3
    /\ \E i \in DOMAIN ViewFraudTxns : ViewFraudTxns[i]["State"] = NaN

====
